---- MODULE Spec2Model ----
(***************************************************************************)
(* The two reporting scripts of qualhook:                                  *)
(*   scripts/generate_test_dashboard.py   (the Dashboard Renderer)         *)
(*   scripts/visualize_test_trends.py     (the Trend Visualizer)           *)
(* Each run is one process: its inputs are the argument vector, the JSON   *)
(* files on disk and the Python runtime; its outputs are files and lines   *)
(* on stdout.                                                              *)
(*                                                                         *)
(* Numbers with a fractional part (coverage, scores) are kept in TENTHS:   *)
(* 599 is 59.9, 800 is 80.0.  A JSON object is a function on its keys, a   *)
(* JSON array a sequence, a string that the code slices a sequence of      *)
(* one-character strings, a package path a sequence of path segments.      *)
(***************************************************************************)
EXTENDS Integers, Sequences, FiniteSets, TLC

VARIABLES
    tool,         \* which script runs: "dashboard" or "visualizer"
    argsOk,       \* whether sys.argv passes the script's length check
    mpl,          \* the runtime's matplotlib: "ok", "absent", "backend_absent"
    metricsFile,  \* [status, data]: the file at sys.argv[1] of the dashboard
    trendFile,    \* [status, data]: the trend history file
    dirExists,    \* whether output_dir exists
    fs0,          \* the output files before the run: "absent" or "old"
    fs,           \* the output files now: "absent", "old" or "new"
    pc,           \* position of the run
    exc,          \* the exception that ended the run, or "none"
    out,          \* lines printed on stdout
    steps,        \* the kinds of steps performed so far, in order
    metrics,      \* json.load of the metrics file
    trends,       \* json.load of the trend file
    derived,      \* locals extracted from the inputs
    html,         \* content written to the HTML file
    summary       \* content written to the markdown file

vars == <<tool, argsOk, mpl, metricsFile, trendFile, dirExists, fs0, fs, pc,
          exc, out, steps, metrics, trends, derived, html, summary>>

----------------------------------------------------------------------------
(* Bounds of the model *)

MaxTrend == 2
MaxPkgs == 2
MaxTests == 2
MaxLongTrend == 11
MaxLongPkgs == 11
MaxLongTests == 11
MaxHistory == 8
MaxFlakyCount == 4

(* Constants of the program *)

TopPackages == 10
TrendPoints == 10
LabelChars == 10
MaxFlakyRows == 10
MaxSlowRows == 10
Window == 7

----------------------------------------------------------------------------
(* Helpers for JSON values and Python sequences *)

Min(a, b) == IF a < b THEN a ELSE b

Has(o, k) == k \in DOMAIN o

\* dict.get(k, d)
Get(o, k, d) == IF k \in DOMAIN o THEN o[k] ELSE d

Without(o, k) == [x \in DOMAIN o \ {k} |-> o[x]]

\* s[:n]
FirstN(s, n) == SubSeq(s, 1, Min(n, Len(s)))

\* s[-n:]
LastN(s, n) == SubSeq(s, Len(s) - Min(n, Len(s)) + 1, Len(s))

SeqsUpTo(S, n) == UNION {[1..k -> S] : k \in 0..n}

File(status, data) == [status |-> status, data |-> data]

NoData == <<>>

----------------------------------------------------------------------------
(* generate_test_dashboard.py: the pure helpers *)

Good == "#4caf50"
Warning == "#ff9800"
Bad == "#f44336"

\* get_score_color with the boundaries taken as open
get_score_color_strict(score) ==
    IF score > 800 THEN Good
    ELSE IF score > 600 THEN Warning
    ELSE Bad

\* get_score_color(score), score in tenths
get_score_color(score) ==
    IF score >= 800 THEN Good
    ELSE IF score >= 600 THEN Warning
    ELSE Bad

\* get_flaky_class with the boundary one count late
get_flaky_class_late(count) ==
    IF count = 0 THEN "success"
    ELSE IF count <= 3 THEN "warning"
    ELSE "error"

\* get_flaky_class(count)
get_flaky_class(count) ==
    IF count = 0 THEN "success"
    ELSE IF count <= 2 THEN "warning"
    ELSE "error"

RepoPrefix == <<"github.com", "bebsworthy", "qualhook">>

\* name.replace('github.com/bebsworthy/qualhook/', ''): every occurrence of
\* the run of segments that is followed by a further segment (the trailing
\* slash of the pattern) is removed.
RECURSIVE StripRepo(_)
StripRepo(p) ==
    IF p = <<>> THEN <<>>
    ELSE IF Len(p) > 3 /\ SubSeq(p, 1, 3) = RepoPrefix
         THEN StripRepo(SubSeq(p, 4, Len(p)))
         ELSE <<Head(p)>> \o StripRepo(Tail(p))

\* the order of a sort that lacks reverse=True
BeforeAscending(x, y) == x.coverage <= y.coverage

\* Whether x goes before y in sorted(..., key=coverage, reverse=True)
Before(x, y) == x.coverage >= y.coverage

RECURSIVE InsertDesc(_, _)
InsertDesc(s, x) ==
    IF s = <<>> THEN <<x>>
    ELSE IF Before(Head(s), x) THEN <<Head(s)>> \o InsertDesc(Tail(s), x)
    ELSE <<x>> \o s

\* sorted(packages, key=lambda x: x['coverage'], reverse=True): a stable
\* sort, equal keys keep their input order
RECURSIVE SortedDesc(_)
SortedDesc(s) ==
    IF s = <<>> THEN <<>>
    ELSE InsertDesc(SortedDesc(SubSeq(s, 1, Len(s) - 1)), s[Len(s)])

\* the packages the loop of generate_package_rows visits
TopOfPackages(packages) == FirstN(SortedDesc(packages), TopPackages)

PackageRow(pkg) ==
    [package    |-> StripRepo(pkg.package),
     coverage   |-> pkg.coverage,
     color      |-> get_score_color(pkg.coverage),
     error      |-> Get(pkg, "error", FALSE),
     test_files |-> pkg.test_files]

\* generate_package_rows raises KeyError: the sort key reads 'coverage' of
\* every package, the loop reads 'package' and 'test_files' of the top ones
PackageRowsRaise(packages) ==
    \/ \E i \in 1..Len(packages) : ~Has(packages[i], "coverage")
    \/ LET top == TopOfPackages(packages)
       IN \E i \in 1..Len(top) :
              ~Has(top[i], "package") \/ ~Has(top[i], "test_files")

\* generate_package_rows(packages)
generate_package_rows(packages) ==
    LET top == TopOfPackages(packages)
    IN [i \in 1..Len(top) |-> PackageRow(top[i])]

TestTypeKeys ==
    <<"unit_test_files", "integration_test_files", "e2e_test_files",
      "benchmark_files", "example_files">>

TestTypeNames ==
    <<"Unit Tests", "Integration Tests", "E2E Tests", "Benchmarks", "Examples">>

TestTypeRowsRaise(test_types) ==
    \E i \in 1..Len(TestTypeKeys) : ~Has(test_types, TestTypeKeys[i])

\* generate_test_type_rows(test_types)
generate_test_type_rows(test_types) ==
    [i \in 1..Len(TestTypeKeys) |->
        [name |-> TestTypeNames[i], count |-> test_types[TestTypeKeys[i]]]]

NoSection == [present |-> FALSE, rows |-> <<>>]

\* the loop over flaky_tests without its slice
FlakyListedAll(flaky_tests) == flaky_tests

\* the tests the loop of generate_flaky_tests_section visits
FlakyListed(flaky_tests) == FirstN(flaky_tests, MaxFlakyRows)

\* the early return of generate_flaky_tests_section
FlakyOmitted(flakiness) == flakiness.flaky_test_count = 0

FlakySectionRaises(flakiness) ==
    \/ ~Has(flakiness, "flaky_test_count")
    \/ /\ ~FlakyOmitted(flakiness)
       /\ \/ ~Has(flakiness, "flaky_tests")
          \/ LET l == FlakyListed(flakiness.flaky_tests)
             IN \E i \in 1..Len(l) : ~Has(l[i], "test") \/ ~Has(l[i], "package")

\* generate_flaky_tests_section(flakiness)
generate_flaky_tests_section(flakiness) ==
    IF FlakyOmitted(flakiness) THEN NoSection
    ELSE LET l == FlakyListed(flakiness.flaky_tests)
         IN [present |-> TRUE,
             rows |-> [i \in 1..Len(l) |->
                          [test |-> l[i].test,
                           package |-> StripRepo(l[i].package)]]]

\* the tests the loop of generate_slow_tests_section visits
SlowListed(slowest) == FirstN(slowest, MaxSlowRows)

\* duration in milliseconds: > 1.0 s, > 0.5 s
DurationColor(duration) ==
    IF duration > 1000 THEN Bad
    ELSE IF duration > 500 THEN Warning
    ELSE Good

SlowSectionRaises(execution_time) ==
    LET l == SlowListed(Get(execution_time, "slowest_tests", <<>>))
    IN \E i \in 1..Len(l) :
           ~Has(l[i], "duration") \/ ~Has(l[i], "name") \/ ~Has(l[i], "package")

\* generate_slow_tests_section(execution_time)
generate_slow_tests_section(execution_time) ==
    LET slowest == Get(execution_time, "slowest_tests", <<>>)
        l == SlowListed(slowest)
    IN IF slowest = <<>> THEN NoSection
       ELSE [present |-> TRUE,
             rows |-> [i \in 1..Len(l) |->
                          [name |-> l[i].name,
                           package |-> StripRepo(l[i].package),
                           color |-> DurationColor(l[i].duration),
                           duration |-> l[i].duration]]]

\* trends[:10], the oldest points instead of the latest
ChartPointsOldest(trend) == FirstN(trend, TrendPoints)

\* trends[-10:]
ChartPoints(trend) == LastN(trend, TrendPoints)

\* t['timestamp'][:10]
TrendLabel(t) == FirstN(t.timestamp, LabelChars)

\* the trend arrays of generate_dashboard
trend_labels(trend) ==
    LET l == ChartPoints(trend) IN [i \in 1..Len(l) |-> TrendLabel(l[i])]

coverage_trend(trend) ==
    LET l == ChartPoints(trend) IN [i \in 1..Len(l) |-> Get(l[i], "coverage", 0)]

quality_trend(trend) ==
    LET l == ChartPoints(trend)
    IN [i \in 1..Len(l) |-> Get(l[i], "quality_score", 0)]

\* the lookups of "Extract key metrics" and of the trend labels raise KeyError
DeriveRaises(m, trend) ==
    \/ ~Has(m, "metrics")
    \/ ~Has(m.metrics, "coverage") \/ ~Has(m.metrics.coverage, "average")
    \/ ~Has(m.metrics, "quality_score")
    \/ ~Has(m.metrics.quality_score, "overall")
    \/ ~Has(m.metrics, "test_types")
    \/ ~Has(m.metrics.test_types, "total_test_files")
    \/ ~Has(m.metrics, "flakiness")
    \/ ~Has(m.metrics.flakiness, "flaky_test_count")
    \/ LET l == ChartPoints(trend)
       IN \E i \in 1..Len(l) : ~Has(l[i], "timestamp")

\* the locals of generate_dashboard after "Extract key metrics"
DashDerived(m, trend) ==
    [coverage       |-> m.metrics.coverage.average,
     quality_score  |-> m.metrics.quality_score.overall,
     test_count     |-> m.metrics.test_types.total_test_files,
     flaky_count    |-> m.metrics.flakiness.flaky_test_count,
     trend_labels   |-> trend_labels(trend),
     coverage_trend |-> coverage_trend(trend),
     quality_trend  |-> quality_trend(trend)]

\* building the f-string raises KeyError
RenderRaises(m) ==
    \/ ~Has(m.metrics.coverage, "by_package")
    \/ PackageRowsRaise(m.metrics.coverage.by_package)
    \/ TestTypeRowsRaise(m.metrics.test_types)
    \/ FlakySectionRaises(m.metrics.flakiness)
    \/ ~Has(m.metrics, "execution_time")
    \/ SlowSectionRaises(m.metrics.execution_time)

\* the f-string of generate_dashboard: what the template interpolates
RenderDashboard(m, d) ==
    [quality_color  |-> get_score_color(d.quality_score),
     coverage_color |-> get_score_color(d.coverage),
     quality_score  |-> d.quality_score,
     coverage       |-> d.coverage,
     test_count     |-> d.test_count,
     flaky_class    |-> get_flaky_class(d.flaky_count),
     flaky_count    |-> d.flaky_count,
     package_rows   |-> generate_package_rows(m.metrics.coverage.by_package),
     test_type_rows |-> generate_test_type_rows(m.metrics.test_types),
     flaky_section  |-> generate_flaky_tests_section(m.metrics.flakiness),
     slow_section   |-> generate_slow_tests_section(m.metrics.execution_time),
     trend_labels   |-> d.trend_labels,
     coverage_trend |-> d.coverage_trend,
     quality_trend  |-> d.quality_trend]

----------------------------------------------------------------------------
(* visualize_test_trends.py: the pure helpers *)

\* datetime.fromisoformat(ts.replace('Z', '+00:00')) accepts ts: it holds
\* at least a full date YYYY-MM-DD
IsIsoFormat(ts) == Len(ts) >= 10 /\ ts[5] = "-" /\ ts[8] = "-"

PointRaises(t) == ~Has(t, "timestamp") \/ ~IsIsoFormat(t.timestamp)

\* the exception of the "Extract data" comprehensions: the first point that
\* cannot be read decides it
ExtractError(trend) ==
    IF \E i \in 1..Len(trend) : PointRaises(trend[i])
    THEN LET i == CHOOSE k \in 1..Len(trend) :
                      /\ PointRaises(trend[k])
                      /\ \A j \in 1..(k - 1) : ~PointRaises(trend[j])
         IN IF Has(trend[i], "timestamp") THEN "ValueError" ELSE "KeyError"
    ELSE "none"

\* the series handed to the plots
VizDerived(trend) ==
    [coverage       |-> [i \in 1..Len(trend) |-> Get(trend[i], "coverage", 0)],
     quality_scores |-> [i \in 1..Len(trend) |-> Get(trend[i], "quality_score", 0)],
     test_counts    |-> [i \in 1..Len(trend) |-> Get(trend[i], "test_count", 0)],
     flaky_counts   |-> [i \in 1..Len(trend) |-> Get(trend[i], "flaky_count", 0)]]

\* the early return taken for two points as well
SummarySkippedForTwo(trend) == Len(trend) <= 2

\* the early return of generate_summary_stats
SummarySkipped(trend) == Len(trend) < 2

\* trends[-7:]
Recent(trend) == LastN(trend, Window)

RECURSIVE SumOf(_, _)
SumOf(s, key) ==
    IF s = <<>> THEN 0 ELSE Get(Head(s), key, 0) + SumOf(Tail(s), key)

RECURSIVE MaxOf(_, _)
MaxOf(s, key) ==
    IF Len(s) = 1 THEN Get(s[1], key, 0)
    ELSE LET m == MaxOf(Tail(s), key)
             h == Get(Head(s), key, 0)
         IN IF h >= m THEN h ELSE m

\* the latest point's count in place of the window's maximum
max_flaky_latest(trend) == Get(trend[Len(trend)], "flaky_count", 0)

\* max(t.get('flaky_count', 0) for t in recent)
max_flaky(trend) == MaxOf(Recent(trend), "flaky_count")

\* last point minus second-to-last point
Delta(trend, key) ==
    Get(trend[Len(trend)], key, 0) - Get(trend[Len(trend) - 1], key, 0)

Rec(kind, n) == [kind |-> kind, n |-> n]

\* the recommendation lines, in the order the code appends them.  The means
\* are kept as sum and count: sum / count < 70 is sum < 70 * count.
Recommendations(trend) ==
    LET recent == Recent(trend)
        n == Len(recent)
    IN (IF SumOf(recent, "coverage") < 700 * n
        THEN <<Rec("low_coverage", 0)>> ELSE <<>>)
       \o (IF SumOf(recent, "quality_score") < 600 * n
           THEN <<Rec("low_quality", 0)>> ELSE <<>>)
       \o (IF max_flaky(trend) > 0
           THEN <<Rec("fix_flaky", max_flaky(trend))>> ELSE <<>>)
       \o (IF Delta(trend, "coverage") < -50
           THEN <<Rec("coverage_declining", 0)>> ELSE <<>>)
       \o (IF Delta(trend, "quality_score") < -100
           THEN <<Rec("quality_declining", 0)>> ELSE <<>>)

\* the text of the summary report
SummaryStats(trend) ==
    LET recent == Recent(trend)
        last == trend[Len(trend)]
    IN [avg_coverage    |-> <<SumOf(recent, "coverage"), Len(recent)>>,
        avg_quality     |-> <<SumOf(recent, "quality_score"), Len(recent)>>,
        max_flaky       |-> max_flaky(trend),
        coverage_trend  |-> Delta(trend, "coverage"),
        quality_trend   |-> Delta(trend, "quality_score"),
        latest_coverage |-> Get(last, "coverage", 0),
        latest_quality  |-> Get(last, "quality_score", 0),
        latest_flaky    |-> Get(last, "flaky_count", 0),
        recommendations |-> Recommendations(trend)]

\* open(path) / json.load(f) raise
LoadError(file) ==
    IF file.status = "missing" THEN "FileNotFoundError"
    ELSE IF file.status = "invalid" THEN "JSONDecodeError"
    ELSE "none"

----------------------------------------------------------------------------
(* The inputs the runs are given *)

TsFull == <<"2", "0", "2", "4", "-", "0", "1", "-", "1", "5",
            "T", "1", "0", ":", "3", "0", ":", "0", "0", "Z">>
TsDate == <<"2", "0", "2", "4", "-", "0", "1", "-", "1", "6">>
TsYear == <<"2", "0", "2", "4">>

tpFull == [timestamp |-> TsFull, coverage |-> 800, quality_score |-> 700,
           test_count |-> 5, flaky_count |-> 2]
tpBare == [timestamp |-> TsDate]
tpNoStamp == [coverage |-> 500, quality_score |-> 400]
tpYear == [timestamp |-> TsYear, coverage |-> 650]

TrendPool == {tpFull, tpBare, tpNoStamp, tpYear}

pkgHigh == [package |-> RepoPrefix \o <<"internal", "config">>,
            coverage |-> 900, test_files |-> 3]
pkgMid == [package |-> RepoPrefix \o <<"cmd">>, coverage |-> 600,
           test_files |-> 1, error |-> TRUE]
pkgLow == [package |-> RepoPrefix, coverage |-> 599, test_files |-> 0]
pkgTie == [package |-> <<"example.com", "tool">>, coverage |-> 900,
           test_files |-> 2]
pkgNoCoverage == [package |-> <<"example.com", "broken">>, test_files |-> 1]

PkgPool == {pkgHigh, pkgMid, pkgLow, pkgTie, pkgNoCoverage}

ftA == [test |-> "TestWatch", package |-> RepoPrefix \o <<"internal", "watcher">>]
ftB == [test |-> "TestExec", package |-> <<"example.com", "tool">>]

FlakyPool == {ftA, ftB}

stSlow == [name |-> "TestBig", package |-> RepoPrefix \o <<"internal", "exec">>,
           duration |-> 1500]
stMid == [name |-> "TestMid", package |-> RepoPrefix \o <<"cmd">>,
          duration |-> 700]
stFast == [name |-> "TestQuick", package |-> <<"example.com", "tool">>,
           duration |-> 200]

SlowPool == {stSlow, stMid, stFast}

Scores == {0, 599, 600, 799, 800, 1000}

BaseTestTypes ==
    [unit_test_files |-> 4, integration_test_files |-> 2, e2e_test_files |-> 1,
     benchmark_files |-> 0, example_files |-> 1, total_test_files |-> 9]

BaseFlakiness == [flaky_test_count |-> 1, flaky_tests |-> <<ftA>>]

BaseExecution == [slowest_tests |-> <<stSlow>>]

Snapshot(average, overall, packages, test_types, flakiness, execution_time) ==
    [metrics |->
        [coverage       |-> [average |-> average, by_package |-> packages],
         quality_score  |-> [overall |-> overall],
         test_types     |-> test_types,
         flakiness      |-> flakiness,
         execution_time |-> execution_time]]

WithPackages(packages) ==
    Snapshot(600, 800, packages, BaseTestTypes, BaseFlakiness, BaseExecution)

WithFlakiness(flakiness) ==
    Snapshot(600, 800, <<pkgLow>>, BaseTestTypes, flakiness, BaseExecution)

WithExecution(execution_time) ==
    Snapshot(600, 800, <<pkgLow>>, BaseTestTypes, BaseFlakiness, execution_time)

BaseSnapshot == WithPackages(<<pkgLow>>)

BaseTrend == <<tpBare, tpFull>>

\* snapshots that lack one numeric field and are complete otherwise
LackingNumeric ==
    {Snapshot(600, 800, <<pkgLow>>, Without(BaseTestTypes, k), BaseFlakiness,
              BaseExecution) : k \in DOMAIN BaseTestTypes}
    \cup {Snapshot(600, 800, <<pkgLow>>, BaseTestTypes,
                   Without(BaseFlakiness, "flaky_test_count"), BaseExecution)}
    \cup {[metrics |-> [BaseSnapshot.metrics EXCEPT
                           !.coverage = Without(@, "average")]],
          [metrics |-> [BaseSnapshot.metrics EXCEPT
                           !.quality_score = Without(@, "overall")]]}

FlakinessValues(n) ==
    {[flaky_test_count |-> c, flaky_tests |-> l] :
        c \in 0..MaxFlakyCount, l \in SeqsUpTo(FlakyPool, n)}

Snapshots ==
    {Snapshot(a, q, <<pkgLow>>, BaseTestTypes, BaseFlakiness, BaseExecution) :
        a \in Scores, q \in Scores}
    \cup {WithPackages(p) : p \in SeqsUpTo(PkgPool, MaxPkgs)}
    \cup {WithFlakiness(f) : f \in FlakinessValues(MaxTests)}
    \cup {WithExecution([slowest_tests |-> l]) : l \in SeqsUpTo(SlowPool, MaxTests)}
    \cup {WithExecution([total_seconds |-> 12])}
    \cup LackingNumeric
    \cup {[generated |-> TsFull]}

Histories == SeqsUpTo(TrendPool, MaxTrend)

Unreadable == {File("missing", NoData), File("invalid", NoData)}

Readable(S) == {File("ok", d) : d \in S}

OutputFiles == {"html", "png", "md"}

\* What every run starts from
Start ==
    /\ pc = "start"
    /\ exc = "none"
    /\ out = <<>>
    /\ steps = <<>>
    /\ metrics = NoData
    /\ trends = NoData
    /\ derived = NoData
    /\ html = NoData
    /\ summary = NoData
    /\ fs = fs0

\* A run of generate_test_dashboard.py on the given files
DashboardRun(metricsFiles, trendFiles, argv, before) ==
    /\ tool = "dashboard"
    /\ argsOk \in argv
    /\ mpl = "ok"
    /\ metricsFile \in metricsFiles
    /\ trendFile \in trendFiles
    /\ dirExists = TRUE
    /\ fs0 \in {[f \in OutputFiles |-> IF f = "html" THEN h ELSE "absent"] :
                   h \in before}
    /\ Start

\* A run of visualize_test_trends.py on the given file
VisualizerRun(runtimes, trendFiles, argv, before) ==
    /\ tool = "visualizer"
    /\ argsOk \in argv
    /\ mpl \in runtimes
    /\ metricsFile = File("missing", NoData)
    /\ trendFile \in trendFiles
    /\ dirExists \in BOOLEAN
    /\ fs0 \in {[f \in OutputFiles |->
                    IF f = "png" THEN p ELSE IF f = "md" THEN m ELSE "absent"] :
                   p \in before, m \in before}
    /\ Start

Runtimes == {"ok", "absent", "backend_absent"}

Preexisting == {"absent", "old"}

Init ==
    \/ DashboardRun(Unreadable \cup Readable(Snapshots),
                    {File("ok", BaseTrend)}, BOOLEAN, Preexisting)
    \/ DashboardRun({File("ok", BaseSnapshot)},
                    Unreadable \cup Readable(Histories), BOOLEAN, Preexisting)
    \/ VisualizerRun(Runtimes, Unreadable \cup Readable(Histories),
                     BOOLEAN, Preexisting)

\* Runs that decide nothing about long lists but take every branch of __main__
ShortDashboardRun ==
    DashboardRun({File("ok", BaseSnapshot)}, {File("ok", BaseTrend)},
                 BOOLEAN, Preexisting)

ShortVisualizerRun ==
    VisualizerRun({"ok", "backend_absent"}, {File("ok", BaseTrend)},
                  BOOLEAN, Preexisting)

\* Package tables longer than the table's limit
LongPkgPool == {pkgHigh, pkgLow}

InitPackages ==
    \/ ShortDashboardRun
    \/ DashboardRun(Readable({WithPackages(p) :
                                 p \in SeqsUpTo(LongPkgPool, MaxLongPkgs)}),
                    {File("ok", BaseTrend)}, {TRUE}, {"old"})

\* Flaky and slow test lists longer than the sections' limits, and flaky
\* counts that differ from the length of the list
LongSlowPool == {stSlow, stFast}

InitSections ==
    \/ ShortDashboardRun
    \/ DashboardRun(Readable({WithFlakiness([flaky_test_count |-> c,
                                             flaky_tests |-> l]) :
                                 c \in {0, 2},
                                 l \in SeqsUpTo(FlakyPool, MaxLongTests)}),
                    {File("ok", BaseTrend)}, {TRUE}, {"old"})
    \/ DashboardRun(Readable({WithExecution([slowest_tests |-> l]) :
                                 l \in SeqsUpTo(LongSlowPool, MaxLongTests)}),
                    {File("ok", BaseTrend)}, {TRUE}, {"old"})

\* Trend histories longer than the charts' limit
ChartPool == {tpFull, tpBare}

InitChart ==
    \/ ShortDashboardRun
    \/ DashboardRun({File("ok", BaseSnapshot)},
                    Readable(SeqsUpTo(ChartPool, MaxLongTrend)),
                    {TRUE}, {"old"})

\* Trend histories longer than the summary's window
tpOne == [timestamp |-> TsDate, coverage |-> 750, flaky_count |-> 1]

SummaryPool == {tpFull, tpBare, tpOne}

InitSummary ==
    \/ ShortVisualizerRun
    \/ VisualizerRun({"ok"}, Readable(SeqsUpTo(SummaryPool, MaxHistory)),
                     {TRUE}, {"old"})

----------------------------------------------------------------------------
(* The run of generate_test_dashboard.py *)

\* an uncaught exception ends the process
Raise(e) == exc' = e /\ pc' = "done"

\* __main__: the argument count check
DashUsage ==
    /\ tool = "dashboard" /\ pc = "start" /\ ~argsOk
    /\ out' = Append(out, "usage")
    /\ pc' = "done"
    /\ UNCHANGED <<tool, argsOk, mpl, metricsFile, trendFile, dirExists, fs0,
                   fs, exc, steps, metrics, trends, derived, html, summary>>

\* "Load data": both files are read before anything else is done
DashLoad ==
    /\ tool = "dashboard" /\ pc = "start" /\ argsOk
    /\ IF LoadError(metricsFile) # "none"
       THEN Raise(LoadError(metricsFile)) /\ UNCHANGED <<metrics, trends, steps>>
       ELSE IF LoadError(trendFile) # "none"
       THEN /\ Raise(LoadError(trendFile))
            /\ metrics' = metricsFile.data
            /\ UNCHANGED <<trends, steps>>
       ELSE /\ metrics' = metricsFile.data
            /\ trends' = trendFile.data
            /\ steps' = Append(steps, "load")
            /\ pc' = "derive"
            /\ UNCHANGED exc
    /\ UNCHANGED <<tool, argsOk, mpl, metricsFile, trendFile, dirExists, fs0,
                   fs, out, derived, html, summary>>

\* "Extract key metrics" and "Generate trend data for charts"
DashDerive ==
    /\ tool = "dashboard" /\ pc = "derive"
    /\ IF DeriveRaises(metrics, trends)
       THEN Raise("KeyError") /\ UNCHANGED <<derived, steps>>
       ELSE /\ derived' = DashDerived(metrics, trends)
            /\ steps' = Append(steps, "derive")
            /\ pc' = "render"
            /\ UNCHANGED exc
    /\ UNCHANGED <<tool, argsOk, mpl, metricsFile, trendFile, dirExists, fs0,
                   fs, out, metrics, trends, html, summary>>

\* rendering into the opened output file: a KeyError leaves a partial file
DashRenderStreaming ==
    /\ tool = "dashboard" /\ pc = "render"
    /\ fs' = [fs EXCEPT !["html"] = "new"]
    /\ IF RenderRaises(metrics)
       THEN Raise("KeyError") /\ UNCHANGED <<html, steps>>
       ELSE /\ html' = RenderDashboard(metrics, derived)
            /\ steps' = Append(steps, "render")
            /\ pc' = "write"
            /\ UNCHANGED exc
    /\ UNCHANGED <<tool, argsOk, mpl, metricsFile, trendFile, dirExists, fs0,
                   out, metrics, trends, derived, summary>>

\* "Generate HTML": the f-string and the generate_* calls inside it
DashRender ==
    /\ tool = "dashboard" /\ pc = "render"
    /\ IF RenderRaises(metrics)
       THEN Raise("KeyError") /\ UNCHANGED <<html, steps>>
       ELSE /\ html' = RenderDashboard(metrics, derived)
            /\ steps' = Append(steps, "render")
            /\ pc' = "write"
            /\ UNCHANGED exc
    /\ UNCHANGED <<tool, argsOk, mpl, metricsFile, trendFile, dirExists, fs0,
                   fs, out, metrics, trends, derived, summary>>

\* "Write dashboard"
DashWrite ==
    /\ tool = "dashboard" /\ pc = "write"
    /\ fs' = [fs EXCEPT !["html"] = "new"]
    /\ steps' = Append(steps, "write")
    /\ pc' = "print"
    /\ UNCHANGED <<tool, argsOk, mpl, metricsFile, trendFile, dirExists, fs0,
                   exc, out, metrics, trends, derived, html, summary>>

\* the confirmation line
DashPrint ==
    /\ tool = "dashboard" /\ pc = "print"
    /\ out' = Append(out, "dashboard_generated")
    /\ steps' = Append(steps, "print")
    /\ pc' = "done"
    /\ UNCHANGED <<tool, argsOk, mpl, metricsFile, trendFile, dirExists, fs0,
                   fs, exc, metrics, trends, derived, html, summary>>

NextDashboard ==
    \/ DashUsage
    \/ DashLoad
    \/ DashDerive
    \/ DashRender
    \/ DashWrite
    \/ DashPrint

----------------------------------------------------------------------------
(* The run of visualize_test_trends.py *)

\* The module's imports run before __main__: import matplotlib.pyplot raises
\* ImportError where matplotlib is not installed, outside every try block.
VizImport ==
    /\ tool = "visualizer" /\ pc = "start"
    /\ IF mpl = "absent"
       THEN Raise("ImportError")
       ELSE pc' = "main" /\ UNCHANGED exc
    /\ UNCHANGED <<tool, argsOk, mpl, metricsFile, trendFile, dirExists, fs0,
                   fs, out, steps, metrics, trends, derived, html, summary>>

\* __main__: the argument count check
VizUsage ==
    /\ tool = "visualizer" /\ pc = "main" /\ ~argsOk
    /\ out' = Append(out, "usage")
    /\ pc' = "done"
    /\ UNCHANGED <<tool, argsOk, mpl, metricsFile, trendFile, dirExists, fs0,
                   fs, exc, steps, metrics, trends, derived, html, summary>>

\* visualize_trends: "Create output directory"
VizMkdir ==
    /\ tool = "visualizer" /\ pc = "main" /\ argsOk
    /\ dirExists' = TRUE
    /\ steps' = Append(steps, "mkdir")
    /\ pc' = "load"
    /\ UNCHANGED <<tool, argsOk, mpl, metricsFile, trendFile, fs0, fs, exc,
                   out, metrics, trends, derived, html, summary>>

\* visualize_trends: "Load trend data" and the empty-history return
VizLoad ==
    /\ tool = "visualizer" /\ pc = "load"
    /\ IF LoadError(trendFile) # "none"
       THEN Raise(LoadError(trendFile)) /\ UNCHANGED <<trends, steps, out>>
       ELSE /\ trends' = trendFile.data
            /\ steps' = Append(steps, "load")
            /\ UNCHANGED exc
            /\ IF trendFile.data = <<>>
               THEN out' = Append(out, "no_trend_data") /\ pc' = "done"
               ELSE pc' = "extract" /\ UNCHANGED out
    /\ UNCHANGED <<tool, argsOk, mpl, metricsFile, trendFile, dirExists, fs0,
                   fs, metrics, derived, html, summary>>

\* visualize_trends: "Extract data"
VizExtract ==
    /\ tool = "visualizer" /\ pc = "extract"
    /\ IF ExtractError(trends) # "none"
       THEN Raise(ExtractError(trends)) /\ UNCHANGED <<derived, steps>>
       ELSE /\ derived' = VizDerived(trends)
            /\ steps' = Append(steps, "derive")
            /\ pc' = "plot"
            /\ UNCHANGED exc
    /\ UNCHANGED <<tool, argsOk, mpl, metricsFile, trendFile, dirExists, fs0,
                   fs, out, metrics, trends, html, summary>>

\* visualize_trends: the figure and its four panels.  pyplot imports its
\* drawing backend when the first figure is made; where that import fails
\* the ImportError reaches the handler of __main__.
VizPlot ==
    /\ tool = "visualizer" /\ pc = "plot"
    /\ IF mpl = "backend_absent"
       THEN pc' = "fallback" /\ UNCHANGED steps
       ELSE pc' = "savefig" /\ steps' = Append(steps, "render")
    /\ UNCHANGED <<tool, argsOk, mpl, metricsFile, trendFile, dirExists, fs0,
                   fs, exc, out, metrics, trends, derived, html, summary>>

\* the confirmation line printed before the plot is saved
VizSaveConfirmsFirst ==
    /\ tool = "visualizer" /\ pc = "savefig"
    /\ fs' = [fs EXCEPT !["png"] = "new"]
    /\ out' = Append(out, "trends_saved")
    /\ steps' = steps \o <<"print", "write">>
    /\ pc' = "summary"
    /\ UNCHANGED <<tool, argsOk, mpl, metricsFile, trendFile, dirExists, fs0,
                   exc, metrics, trends, derived, html, summary>>

\* visualize_trends: "Save the plot" and its confirmation line
VizSave ==
    /\ tool = "visualizer" /\ pc = "savefig"
    /\ fs' = [fs EXCEPT !["png"] = "new"]
    /\ out' = Append(out, "trends_saved")
    /\ steps' = steps \o <<"write", "print">>
    /\ pc' = "summary"
    /\ UNCHANGED <<tool, argsOk, mpl, metricsFile, trendFile, dirExists, fs0,
                   exc, metrics, trends, derived, html, summary>>

\* generate_summary_stats(trend, output_dir), called with `printed` on stdout
\* and `done` the steps so far
generate_summary_stats(trend, printed, done) ==
    IF SummarySkipped(trend)
    THEN /\ out' = printed
         /\ steps' = done
         /\ UNCHANGED <<fs, summary>>
    ELSE /\ summary' = SummaryStats(trend)
         /\ fs' = [fs EXCEPT !["md"] = "new"]
         /\ out' = Append(printed, "summary_saved")
         /\ steps' = done \o <<"derive", "render", "write", "print">>

\* visualize_trends: "Generate summary statistics"
VizSummary ==
    /\ tool = "visualizer" /\ pc = "summary"
    /\ generate_summary_stats(trends, out, steps)
    /\ pc' = "done"
    /\ UNCHANGED <<tool, argsOk, mpl, metricsFile, trendFile, dirExists, fs0,
                   exc, metrics, trends, derived, html>>

\* __main__: except ImportError.  The file was read by visualize_trends
\* before the ImportError, so the second read succeeds.
VizFallback ==
    /\ tool = "visualizer" /\ pc = "fallback"
    /\ trends' = trendFile.data
    /\ IF trendFile.data # <<>>
       THEN generate_summary_stats(trendFile.data,
                                   out \o <<"warning", "text_only">>,
                                   Append(steps, "load"))
       ELSE /\ out' = out \o <<"warning", "text_only">>
            /\ steps' = Append(steps, "load")
            /\ UNCHANGED <<fs, summary>>
    /\ pc' = "done"
    /\ UNCHANGED <<tool, argsOk, mpl, metricsFile, trendFile, dirExists, fs0,
                   exc, metrics, derived, html>>

NextVisualizer ==
    \/ VizImport
    \/ VizUsage
    \/ VizMkdir
    \/ VizLoad
    \/ VizExtract
    \/ VizPlot
    \/ VizSave
    \/ VizSummary
    \/ VizFallback

Next == NextDashboard \/ NextVisualizer

Spec == Init /\ [][Next]_vars

SpecPackages == InitPackages /\ [][NextDashboard]_vars

SpecSections == InitSections /\ [][NextDashboard]_vars

SpecChart == InitChart /\ [][NextDashboard]_vars

SpecSummary == InitSummary /\ [][NextVisualizer]_vars

----------------------------------------------------------------------------
(* Properties *)

Printed(line) == \E i \in 1..Len(out) : out[i] = line

Finished == pc = "done"

WellFormed(trend) == \A i \in 1..Len(trend) : ~PointRaises(trend[i])

IsPrefix(s, t) == Len(s) <= Len(t) /\ SubSeq(t, 1, Len(s)) = s

\* C1: run where matplotlib cannot be imported, on a readable history of at
\* least 2 points, the visualizer prints the missing-dependency warning and
\* writes the markdown summary without the image, instead of aborting.
C1_TextOnlyFallback ==
    ( /\ tool = "visualizer" /\ mpl = "absent" /\ argsOk
      /\ trendFile.status = "ok"
      /\ Len(trendFile.data) >= 2
      /\ WellFormed(trendFile.data)
      /\ Finished )
    => /\ exc = "none"
       /\ Printed("warning")
       /\ fs["md"] = "new"
       /\ fs["png"] = fs0["png"]

\* a successful run of visualize_trends: it returned, and __main__ neither
\* stopped at the usage line nor took over in its handler
VisualizeTrendsReturned ==
    /\ tool = "visualizer" /\ argsOk /\ Finished /\ exc = "none"
    /\ ~Printed("warning")

\* C2: what a successful run of visualize_trends writes depends only on the
\* length n of the history: for n = 0 the notice and no file, for n = 1 the
\* PNG and no summary, for n >= 2 the PNG and the summary.
C2_OutputsByLength ==
    VisualizeTrendsReturned =>
        LET n == Len(trends)
        IN /\ n = 0 => Printed("no_trend_data") /\ fs = fs0
           /\ n = 1 => fs["png"] = "new" /\ fs["md"] = fs0["md"]
           /\ n >= 2 => fs["png"] = "new" /\ fs["md"] = "new"
           /\ fs["html"] = fs0["html"]

C2_Witness ==
    /\ VisualizeTrendsReturned
    /\ Len(trends) = 1
    /\ fs["png"] = "new"
    /\ fs0["md"] = "old" /\ fs["md"] = "old"

InputErrors == {"FileNotFoundError", "JSONDecodeError", "KeyError"}

\* C3: in either tool a run ended by a missing file, by invalid JSON or by
\* an absent required key leaves the HTML, PNG and markdown files as they
\* were before the run.
C3_NoPartialOutput ==
    (Finished /\ exc \in InputErrors) => fs = fs0

C3_Witness ==
    /\ tool = "dashboard" /\ Finished /\ exc = "KeyError"
    /\ steps = <<"load", "derive">>
    /\ fs0["html"] = "old" /\ fs["html"] = "old"

Linear == <<"load", "derive", "render", "write", "print">>

\* C4 as stated: in every run of either tool the steps occur once each in
\* the order load, derive, render, write, print; nothing is created or
\* written before the load, nothing is derived after a write.
C4_StrictlyLinear ==
    /\ IsPrefix(steps, Linear)
    /\ \A i \in 1..Len(steps) :
           steps[i] \in {"mkdir", "write"} =>
               \E j \in 1..(i - 1) : steps[j] = "load"
    /\ \A i \in 1..Len(steps) : \A j \in (i + 1)..Len(steps) :
           ~(steps[i] = "write" /\ steps[j] = "derive")

VisualizerOrder ==
    <<"mkdir", "load", "derive", "render", "write", "print",
      "derive", "render", "write", "print">>

FallbackOrder ==
    <<"mkdir", "load", "derive", "load", "derive", "render", "write", "print">>

\* C4: the dashboard's steps occur once each in the order load, derive,
\* render, write, print.  The visualizer creates the output directory, then
\* loads, derives, renders, writes and confirms the image, then derives,
\* renders, writes and confirms the summary (in the handler of __main__:
\* loads again, then the summary).  In both no output file is written
\* before the input has been loaded.
C4_StepOrder ==
    /\ tool = "dashboard" => IsPrefix(steps, Linear)
    /\ tool = "visualizer" =>
           IsPrefix(steps, VisualizerOrder) \/ IsPrefix(steps, FallbackOrder)
    /\ \A i \in 1..Len(steps) :
           steps[i] = "write" => \E j \in 1..(i - 1) : steps[j] = "load"
    /\ fs # fs0 => \E j \in 1..Len(steps) : steps[j] = "load"

C4_Witness ==
    /\ tool = "visualizer" /\ Finished
    /\ steps = VisualizerOrder
    /\ fs["png"] = "new" /\ fs["md"] = "new"

\* the color of a score s in tenths, by the documented thresholds
ColorRule(s, c) ==
    /\ c = Good <=> s >= 800
    /\ c = Warning <=> (s >= 600 /\ s < 800)
    /\ c = Bad <=> s < 600

\* C5: a score of at least 80 is shown in the good color, one from 60 up
\* to but not 80 in the warning color, one below 60 in the bad color; the
\* quality score tile, the coverage tile and every coverage cell of the
\* package table follow that rule.
C5_ScoreColors ==
    (tool = "dashboard" /\ fs["html"] = "new") =>
        /\ ColorRule(metrics.metrics.quality_score.overall, html.quality_color)
        /\ ColorRule(metrics.metrics.coverage.average, html.coverage_color)
        /\ \A i \in 1..Len(html.package_rows) :
               ColorRule(html.package_rows[i].coverage,
                         html.package_rows[i].color)

C5_Witness ==
    /\ tool = "dashboard" /\ fs["html"] = "new"
    /\ metrics.metrics.quality_score.overall = 800 /\ html.quality_color = Good
    /\ metrics.metrics.coverage.average = 600 /\ html.coverage_color = Warning
    /\ \E i \in 1..Len(html.package_rows) :
           /\ html.package_rows[i].coverage = 599
           /\ html.package_rows[i].color = Bad

\* how many elements of s have a coverage of at least v
AtLeast(s, v) == Cardinality({i \in 1..Len(s) : s[i].coverage >= v})

\* C6: the package table has min(10, number of packages) rows, in
\* non-increasing order of coverage, and they are the packages of highest
\* coverage: for every coverage v, as many rows have at least v as the
\* input has, up to 10.
C6_TopPackages ==
    (tool = "dashboard" /\ fs["html"] = "new") =>
        LET packages == metrics.metrics.coverage.by_package
            rows == html.package_rows
        IN /\ Len(rows) = Min(10, Len(packages))
           /\ \A i \in 1..Len(rows) : \A j \in i..Len(rows) :
                  rows[i].coverage >= rows[j].coverage
           /\ \A k \in 1..Len(packages) :
                  AtLeast(rows, packages[k].coverage)
                      = Min(10, AtLeast(packages, packages[k].coverage))

C6_Witness ==
    /\ tool = "dashboard" /\ fs["html"] = "new"
    /\ LET packages == metrics.metrics.coverage.by_package
           rows == html.package_rows
       IN /\ Len(packages) = 11 /\ Len(rows) = 10
          /\ packages[1].coverage = 599 /\ packages[2].coverage = 599
          /\ packages[11].coverage = 900
          /\ AtLeast(packages, 900) = 9
          /\ rows[9].coverage = 900 /\ rows[10].coverage = 599

FlakyInput == metrics.metrics.flakiness

SlowInput == Get(metrics.metrics.execution_time, "slowest_tests", <<>>)

SectionRows ==
    /\ html.flaky_section.present =>
           LET rows == html.flaky_section.rows
           IN /\ Len(rows) = Min(10, Len(FlakyInput.flaky_tests))
              /\ \A i \in 1..Len(rows) :
                     rows[i].test = FlakyInput.flaky_tests[i].test
    /\ html.slow_section.present =>
           LET rows == html.slow_section.rows
           IN /\ Len(rows) = Min(10, Len(SlowInput))
              /\ \A i \in 1..Len(rows) :
                     /\ rows[i].name = SlowInput[i].name
                     /\ rows[i].duration = SlowInput[i].duration

\* C7 as stated: the Flaky Tests section is absent whenever the flaky count
\* or the flaky list is empty, the Slowest Tests section whenever its list
\* is empty; a section that is present lists min(10, length) rows in input
\* order.
C7_AbsentWhenCountOrListEmpty ==
    (tool = "dashboard" /\ fs["html"] = "new") =>
        /\ (FlakyInput.flaky_test_count = 0 \/ FlakyInput.flaky_tests = <<>>)
               => ~html.flaky_section.present
        /\ SlowInput = <<>> => ~html.slow_section.present
        /\ SectionRows

\* C7: the Flaky Tests section is absent exactly when flaky_test_count is
\* 0, whatever the list holds; the Slowest Tests section is absent exactly
\* when its list is empty; a section that is present lists min(10, length)
\* rows in input order.
C7_Sections ==
    (tool = "dashboard" /\ fs["html"] = "new") =>
        /\ html.flaky_section.present <=> FlakyInput.flaky_test_count # 0
        /\ html.slow_section.present <=> SlowInput # <<>>
        /\ SectionRows

C7_Witness ==
    /\ tool = "dashboard" /\ fs["html"] = "new"
    /\ FlakyInput.flaky_test_count = 2
    /\ Len(FlakyInput.flaky_tests) = 11
    /\ html.flaky_section.present
    /\ Len(html.flaky_section.rows) = 10
    /\ FlakyInput.flaky_tests[1] = ftB /\ FlakyInput.flaky_tests[2] = ftA
    /\ html.flaky_section.rows[1].test = "TestExec"

FlakyAt(i) == Get(trends[i], "flaky_count", 0)

\* the points of the summary's window: the last min(7, n)
WindowPoints == {i \in 1..Len(trends) : i > Len(trends) - 7}

WindowMax == CHOOSE m \in {FlakyAt(i) : i \in WindowPoints} :
                 \A i \in WindowPoints : FlakyAt(i) <= m

FixFlakyLines ==
    {i \in 1..Len(summary.recommendations) :
        summary.recommendations[i].kind = "fix_flaky"}

\* C8: the summary of a history of n >= 2 points has the line "Fix N flaky
\* tests" exactly when the largest flaky_count of the last min(7, n) points
\* (an absent one counting 0) is above 0, and N is that largest count.
C8_FlakyRecommendation ==
    (tool = "visualizer" /\ fs["md"] = "new") =>
        /\ Len(trends) >= 2
        /\ FixFlakyLines # {} <=> WindowMax > 0
        /\ Cardinality(FixFlakyLines) <= 1
        /\ \A i \in FixFlakyLines : summary.recommendations[i].n = WindowMax
        /\ summary.max_flaky = WindowMax

C8_Witness ==
    /\ tool = "visualizer" /\ fs["md"] = "new"
    /\ Len(trends) = 8
    /\ FlakyAt(1) = 2
    /\ WindowMax = 1
    /\ FlakyAt(8) = 0 /\ ~Has(trends[8], "flaky_count")
    /\ \E i \in FixFlakyLines : summary.recommendations[i].n = 1

\* C9: the chart labels and both data series have min(10, n) entries; entry
\* i of each comes from trend point n - min(10, n) + i, and the label is
\* the first 10 characters of that point's timestamp.
C9_ChartSeries ==
    (tool = "dashboard" /\ fs["html"] = "new") =>
        LET n == Len(trends)
            k == Min(10, n)
        IN /\ Len(html.trend_labels) = k
           /\ Len(html.coverage_trend) = k
           /\ Len(html.quality_trend) = k
           /\ \A i \in 1..k :
                  LET t == trends[n - k + i]
                      label == html.trend_labels[i]
                  IN /\ Len(label) = Min(10, Len(t.timestamp))
                     /\ \A c \in 1..Len(label) : label[c] = t.timestamp[c]
                     /\ html.coverage_trend[i] = Get(t, "coverage", 0)
                     /\ html.quality_trend[i] = Get(t, "quality_score", 0)

C9_Witness ==
    /\ tool = "dashboard" /\ fs["html"] = "new"
    /\ Len(trends) = 11
    /\ trends[1] = tpFull /\ trends[2] = tpBare /\ trends[11] = tpFull
    /\ Len(html.trend_labels) = 10
    /\ html.trend_labels[1] = TsDate
    /\ html.trend_labels[10] = SubSeq(TsFull, 1, 10)
    /\ html.coverage_trend[1] = 0 /\ html.coverage_trend[10] = 800

\* m lacks nothing but numeric fields
OnlyNumericMissing(m) ==
    /\ Has(m, "metrics")
    /\ {"coverage", "quality_score", "test_types", "flakiness",
        "execution_time"} \subseteq DOMAIN m.metrics
    /\ Has(m.metrics.coverage, "by_package")
    /\ \A i \in 1..Len(m.metrics.coverage.by_package) :
           {"package", "coverage", "test_files"}
               \subseteq DOMAIN m.metrics.coverage.by_package[i]
    /\ Has(m.metrics.flakiness, "flaky_tests")

\* C10: an absent numeric field counts as 0 and the run completes and
\* writes its output: a metrics snapshot that lacks coverage.average,
\* quality_score.overall, a test_types count or flaky_test_count still
\* yields the dashboard, and a trend point that lacks coverage,
\* quality_score, test_count or flaky_count is plotted as 0.
C10_NumericDefaults ==
    /\ ( /\ tool = "dashboard" /\ argsOk /\ Finished
         /\ metricsFile.status = "ok" /\ trendFile.status = "ok"
         /\ OnlyNumericMissing(metricsFile.data)
         /\ WellFormed(trendFile.data) )
       => exc = "none" /\ fs["html"] = "new"
    /\ (tool = "dashboard" /\ fs["html"] = "new") =>
           \A i \in 1..Len(html.coverage_trend) :
               LET t == ChartPoints(trends)[i]
               IN /\ ~Has(t, "coverage") => html.coverage_trend[i] = 0
                  /\ ~Has(t, "quality_score") => html.quality_trend[i] = 0
    /\ (tool = "visualizer" /\ fs["png"] = "new") =>
           \A i \in 1..Len(trends) :
               /\ ~Has(trends[i], "coverage") => derived.coverage[i] = 0
               /\ ~Has(trends[i], "quality_score") =>
                      derived.quality_scores[i] = 0
               /\ ~Has(trends[i], "test_count") => derived.test_counts[i] = 0
               /\ ~Has(trends[i], "flaky_count") => derived.flaky_counts[i] = 0

\* C11: the flaky tile has class 'success' exactly for a count of 0,
\* 'warning' exactly for a count of 1 or 2, 'error' exactly for a count of
\* 3 or more.
C11_FlakyClass ==
    (tool = "dashboard" /\ fs["html"] = "new") =>
        LET c == metrics.metrics.flakiness.flaky_test_count
        IN /\ html.flaky_count = c
           /\ html.flaky_class = "success" <=> c = 0
           /\ html.flaky_class = "warning" <=> c \in {1, 2}
           /\ html.flaky_class = "error" <=> c >= 3

C11_Witness ==
    /\ tool = "dashboard" /\ fs["html"] = "new"
    /\ metrics.metrics.flakiness.flaky_test_count = 3
    /\ html.flaky_class = "error"

====
